---- MODULE Spec2Model ----
(***************************************************************************)
(* A model of the assessment pipeline of trademark_core:                   *)
(*   - batch_process_goods_services (llm.py): the chunked, concurrent      *)
(*     cross-product of goods/services assessments;                        *)
(*   - generate_structured_content (llm.py): the bounded retry loop around *)
(*     the external reasoning service;                                     *)
(*   - its callers generate_mark_similarity_assessment,                    *)
(*     generate_gs_likelihood_assessment (llm.py) and                      *)
(*     calculate_conceptual_similarity (similarity.py);                    *)
(*   - the /case_prediction endpoint (api/main.py);                        *)
(*   - calculate_visual_similarity, calculate_aural_similarity and         *)
(*     calculate_overall_similarity (similarity.py).                       *)
(* Scores and confidences of the first four are integers in hundredths as  *)
(* well; the similarity scores of the last are exact fractions.            *)
(* Temperatures are integers in hundredths (0.1 is 10, 0.6 is 60).         *)
(***************************************************************************)
EXTENDS Integers, Sequences, FiniteSets, TLC

\* ------------------------------------------------------------------ bounds
\* A batch call gets at most MaxApplicantGoods applicant goods and at most
\* MaxOpponentGoods opponent goods.
MaxApplicantGoods == 2
MaxOpponentGoods == 4
\* A /case_prediction request holds at most MaxLikelihoods likelihoods.
MaxLikelihoods == 4
\* A wordmark has at most MaxMarkLen characters.
MaxMarkLen == 2

\* ------------------------------------------------------- program constants
batch_size == 3
delay_seconds == 1
MaxAttemptsOneMore == 3 + 1
max_attempts == 3
DEFAULT_TEMPERATURE == 20
DEFAULT_TEMPERATURE_INCREMENT == 10
TemperatureCap == 60

DEFAULT_MODEL == "gemini-2.5-pro-preview-03-25"
SUPPORTED_MODELS == {"gemini-2.5-pro-preview-03-25", "gemini-2.5-flash-preview-04-17"}

None == "None"

VARIABLES
    \* ---- batch_process_goods_services
    applicant_goods,      \* argument: list of GoodService
    opponent_goods,       \* argument: list of GoodService
    strict_failure_mode,  \* the environment flag TEST_RAISE_EXCEPTIONS
    bpc,                  \* position of the batch coroutine
    combinations,         \* the list of (applicant_good, opponent_good)
    i,                    \* loop variable: 0-based offset of the chunk
    task,                 \* state of the assessment of each combination
    calls,                \* invocations of generate_gs_likelihood_assessment
    processed_results,
    successful_count,
    error_count,
    first_error,
    slept,                \* seconds spent in asyncio.sleep between chunks
    batch_outcome,        \* what the call gave its caller
    \* ---- generate_structured_content
    model,                \* argument: model name or None
    temperature,          \* argument: the caller's temperature
    gpc,                  \* position of the call
    model_to_use,
    attempt,
    config_temperature,   \* config.temperature
    requests,             \* the requests sent to the external service
    responses,            \* what the service answered to each request
    gen_outcome,          \* what the call gave its caller
    \* ---- the callers of generate_structured_content
    caller,               \* which function is running
    assess_model,         \* argument: model name or None
    visual_score,         \* argument, in hundredths
    aural_score,          \* argument, in hundredths
    made_up,              \* whether mark1, mark2 are coined words
    apc,                  \* position of the caller
    payload,              \* the fields of the parsed object it was given
    assess_outcome,       \* what the caller gave its own caller
    \* ---- the /case_prediction endpoint
    goods_services_likelihoods,  \* request field
    cpc,                  \* position of the request
    locals,               \* the handler's local variables, by name
    opposition_outcome,
    http_response,        \* what the client receives
    \* ---- calculate_overall_similarity
    mark1,                \* argument: mark1.wordmark
    mark2,                \* argument: mark2.wordmark
    metaphone,            \* what doublemetaphone gave for mark1 and mark2
    spc,                  \* position of the call
    visual_sim,
    aural_sim,
    conceptual_sim,
    similarity_output     \* the MarkSimilarityOutput returned

batch_vars == <<applicant_goods, opponent_goods, strict_failure_mode, bpc,
                combinations, i, task, calls,
                processed_results, successful_count, error_count, first_error,
                slept, batch_outcome>>

gen_vars == <<model, temperature, gpc, model_to_use, attempt,
              config_temperature, requests, responses, gen_outcome>>

assess_vars == <<caller, assess_model, visual_score, aural_score, made_up,
                 apc, payload, assess_outcome>>

case_vars == <<goods_services_likelihoods, cpc, locals, opposition_outcome,
               http_response>>

sim_vars == <<mark1, mark2, metaphone, spc, visual_sim, aural_sim,
              conceptual_sim, similarity_output>>

vars == <<batch_vars, gen_vars, assess_vars, case_vars, sim_vars>>

Min(a, b) == IF a < b THEN a ELSE b

\* ======================================================================
\* batch_process_goods_services
\* ======================================================================

\* A GoodService value; the j-th entry of a list is told apart by its class.
GoodService(side, j) == [term |-> side, nice_class |-> j]

GoodsList(side, n) == [j \in 1..n |-> GoodService(side, j)]

\* The inner loop of the cross-product: one applicant good against every
\* opponent good, in list order.
InnerCombinationsFirstOnly(applicant_good, og) ==
    [b \in 1..Min(1, Len(og)) |-> <<applicant_good, og[b]>>]

InnerCombinations(applicant_good, og) ==
    [b \in 1..Len(og) |-> <<applicant_good, og[b]>>]

\* The nested loops that build `combinations`.
RECURSIVE Combinations(_, _)
Combinations(ag, og) ==
    IF ag = <<>> THEN <<>>
    ELSE InnerCombinations(Head(ag), og) \o Combinations(Tail(ag), og)

\* The 1-based positions of combinations[i:i+batch_size].
ChunkUpper(off, n) == Min(off + batch_size, n)

Batch(off, n) == (off + 1)..ChunkUpper(off, n)

Settled(k) == task[k] \in {"ok", "error"}

InFlight == {k \in DOMAIN task : task[k] \in {"scheduled", "running"}}

\* asyncio.gather(*tasks, return_exceptions=True) resumes the caller once
\* every task of the chunk has settled.
GatherCompleteAny(chunk) == \E k \in chunk : Settled(k)

GatherComplete(chunk) == \A k \in chunk : Settled(k)

\* The result or the exception of the assessment of pair k.
Result(k) == [kind |-> "result", pair |-> k]
Error(k) == [kind |-> "error", pair |-> k]
\* first_error before any assignment to it.
Unbound == [kind |-> "unbound", pair |-> 0]

\* One iteration of the loop over batch_results.
HandleOneLastError(acc, k) ==
    IF task[k] = "error"
    THEN [acc EXCEPT !.error_count = @ + 1, !.first_error = Error(k)]
    ELSE [acc EXCEPT !.processed_results = Append(@, Result(k)),
                     !.successful_count = @ + 1]

HandleOnePrepend(acc, k) ==
    IF task[k] = "error"
    THEN [acc EXCEPT !.error_count = @ + 1,
                     !.first_error = IF acc.error_count + 1 = 1
                                     THEN Error(k) ELSE @]
    ELSE [acc EXCEPT !.processed_results = <<Result(k)>> \o @,
                     !.successful_count = @ + 1]

HandleOne(acc, k) ==
    IF task[k] = "error"
    THEN [acc EXCEPT !.error_count = @ + 1,
                     !.first_error = IF acc.error_count + 1 = 1
                                     THEN Error(k) ELSE @]
    ELSE [acc EXCEPT !.processed_results = Append(@, Result(k)),
                     !.successful_count = @ + 1]

\* The loop over batch_results, in task order lo..hi.
RECURSIVE HandleResults(_, _, _)
HandleResults(acc, lo, hi) ==
    IF lo > hi THEN acc
    ELSE HandleResults(HandleOne(acc, lo), lo + 1, hi)

\* The end of the function: raise the first error or return the results.
FinalOutcomeRaiseOnEmpty(errors, first, results) ==
    IF errors > 0 \/ results = <<>>
    THEN [kind |-> "raised", value |-> first]
    ELSE [kind |-> "returned", value |-> results]

FinalOutcome(errors, first, results) ==
    IF errors > 0
    THEN [kind |-> "raised", value |-> first]
    ELSE [kind |-> "returned", value |-> results]

BatchInit ==
    /\ \E n \in 0..MaxApplicantGoods : applicant_goods = GoodsList("applicant", n)
    /\ \E m \in 0..MaxOpponentGoods : opponent_goods = GoodsList("opponent", m)
    /\ strict_failure_mode \in BOOLEAN
    /\ bpc = "entry"
    /\ combinations = <<>>
    /\ i = 0
    /\ task = <<>>
    /\ calls = <<>>
    /\ processed_results = <<>>
    /\ successful_count = 0
    /\ error_count = 0
    /\ first_error = Unbound
    /\ slept = 0
    /\ batch_outcome = [kind |-> "none", value |-> None]

BatchIdle ==
    /\ applicant_goods = <<>>
    /\ opponent_goods = <<>>
    /\ strict_failure_mode = FALSE
    /\ bpc = "idle"
    /\ combinations = <<>>
    /\ i = 0
    /\ task = <<>>
    /\ calls = <<>>
    /\ processed_results = <<>>
    /\ successful_count = 0
    /\ error_count = 0
    /\ first_error = Unbound
    /\ slept = 0
    /\ batch_outcome = [kind |-> "none", value |-> None]

\* Lines 903-915: build the cross-product and reset the accumulators.
BatchEntry ==
    /\ bpc = "entry"
    /\ combinations' = Combinations(applicant_goods, opponent_goods)
    /\ task' = [k \in 1..Len(combinations') |-> "none"]
    /\ calls' = [k \in 1..Len(combinations') |-> 0]
    /\ processed_results' = <<>>
    /\ successful_count' = 0
    /\ error_count' = 0
    /\ i' = 0
    /\ bpc' = "loop"
    /\ UNCHANGED <<applicant_goods, opponent_goods, strict_failure_mode,
                   first_error, slept, batch_outcome>>
    /\ UNCHANGED <<gen_vars, assess_vars, case_vars, sim_vars>>

\* Lines 917-942: the head of the for loop creates the chunk's tasks and
\* awaits their gather.
StartChunk ==
    /\ bpc = "loop"
    /\ i < Len(combinations)
    /\ task' = [k \in DOMAIN task |->
                  IF k \in Batch(i, Len(combinations)) THEN "scheduled" ELSE task[k]]
    /\ bpc' = "gather"
    /\ UNCHANGED <<applicant_goods, opponent_goods, strict_failure_mode,
                   combinations, i, calls,
                   processed_results, successful_count, error_count,
                   first_error, slept, batch_outcome>>
    /\ UNCHANGED <<gen_vars, assess_vars, case_vars, sim_vars>>

\* The event loop runs a scheduled task: generate_gs_likelihood_assessment is
\* entered for the pair.
TaskStart(k) ==
    /\ bpc = "gather"
    /\ task[k] = "scheduled"
    /\ task' = [task EXCEPT ![k] = "running"]
    /\ calls' = [calls EXCEPT ![k] = @ + 1]
    /\ UNCHANGED <<applicant_goods, opponent_goods, strict_failure_mode, bpc,
                   combinations, i, processed_results, successful_count,
                   error_count, first_error, slept, batch_outcome>>
    /\ UNCHANGED <<gen_vars, assess_vars, case_vars, sim_vars>>

\* The assessment of pair k returns a value or raises.
TaskSettle(k, ok) ==
    /\ bpc = "gather"
    /\ task[k] = "running"
    /\ task' = [task EXCEPT ![k] = IF ok THEN "ok" ELSE "error"]
    /\ UNCHANGED <<applicant_goods, opponent_goods, strict_failure_mode, bpc,
                   combinations, i, calls,
                   processed_results, successful_count, error_count,
                   first_error, slept, batch_outcome>>
    /\ UNCHANGED <<gen_vars, assess_vars, case_vars, sim_vars>>

\* Lines 942-966: gather returns, the results are handled in task order and
\* the loop either sleeps before the next chunk or ends.
GatherDone ==
    /\ bpc = "gather"
    /\ GatherComplete(Batch(i, Len(combinations)))
    /\ LET acc == HandleResults(
                    [processed_results |-> processed_results,
                     successful_count |-> successful_count,
                     error_count |-> error_count,
                     first_error |-> first_error],
                    i + 1, ChunkUpper(i, Len(combinations)))
       IN /\ processed_results' = acc.processed_results
          /\ successful_count' = acc.successful_count
          /\ error_count' = acc.error_count
          /\ first_error' = acc.first_error
    /\ IF i + batch_size < Len(combinations)
       THEN /\ bpc' = "sleep"
            /\ i' = i
       ELSE /\ bpc' = "loop"
            /\ i' = i + batch_size
    /\ UNCHANGED <<applicant_goods, opponent_goods, strict_failure_mode,
                   combinations, task, calls, slept,
                   batch_outcome>>
    /\ UNCHANGED <<gen_vars, assess_vars, case_vars, sim_vars>>

\* Line 966: asyncio.sleep(delay_seconds) returns; the loop advances.
SleepElapsed ==
    /\ bpc = "sleep"
    /\ slept' = slept + delay_seconds
    /\ i' = i + batch_size
    /\ bpc' = "loop"
    /\ UNCHANGED <<applicant_goods, opponent_goods, strict_failure_mode,
                   combinations, task, calls,
                   processed_results, successful_count, error_count,
                   first_error, batch_outcome>>
    /\ UNCHANGED <<gen_vars, assess_vars, case_vars, sim_vars>>

\* Lines 968-976: the loop is over.
Finish ==
    /\ bpc = "loop"
    /\ i >= Len(combinations)
    /\ batch_outcome' = FinalOutcome(error_count, first_error, processed_results)
    /\ bpc' = "done"
    /\ UNCHANGED <<applicant_goods, opponent_goods, strict_failure_mode,
                   combinations, i, task, calls,
                   processed_results, successful_count, error_count,
                   first_error, slept>>
    /\ UNCHANGED <<gen_vars, assess_vars, case_vars, sim_vars>>

\* ======================================================================
\* generate_structured_content
\* ======================================================================

\* The model names a caller may pass: none, the supported ones, and two
\* that are not supported.
ModelArguments == {None} \cup SUPPORTED_MODELS \cup {"nonexistent-model-name", ""}

\* The caller's temperature, in hundredths.
Temperatures == {0, 10, 20, 45, 55, 60, 100}

\* What one generate_content call can give back:
\*  - a response, whose text is a string, None or not an attribute at all,
\*    and whose parsed is truthy (a schema instance) or not (None, empty);
\*  - a GoogleAPIError, whose lower-cased message holds "rate limit" and
\*    "timeout" or not;
\*  - any other exception.
ServiceResponses ==
    [type : {"response"}, text : {"str", "None", "absent"}, parsed : BOOLEAN]
    \cup [type : {"GoogleAPIError"}, rate_limit : BOOLEAN, timeout : BOOLEAN]
    \cup {[type |-> "Exception"]}

ValueError(msg) == [type |-> "ValueError", msg |-> msg]
TypeError == [type |-> "TypeError"]

Raised(e) == [kind |-> "raised", value |-> e]
Returned(v) == [kind |-> "returned", value |-> v]

\* Lines 775-781: the model the requests will name, or the error raised.
ResolveModelFallback(m) ==
    IF m # None /\ m \in SUPPORTED_MODELS
    THEN [ok |-> TRUE, model_to_use |-> m]
    ELSE [ok |-> TRUE, model_to_use |-> DEFAULT_MODEL]

ResolveModel(m) ==
    IF m = None THEN [ok |-> TRUE, model_to_use |-> DEFAULT_MODEL]
    ELSE IF m \in SUPPORTED_MODELS THEN [ok |-> TRUE, model_to_use |-> m]
    ELSE [ok |-> FALSE, error |-> ValueError("Unsupported model")]

\* Line 813: the attempts of the for loop, range(1, max_attempts + 1).
AttemptRange == 1..max_attempts

\* Lines 842 and 856: attempt < max_attempts.
HasAttemptsLeft(a) == a < max_attempts

\* Line 831: `if response.parsed`.
ParsedIsValidAlways(resp) == TRUE

ParsedIsValid(resp) == resp.parsed

\* Lines 822-826: logging the raw response takes len(response.text), which
\* raises TypeError when the attribute is there and holds None.
LoggingRaises(resp) == resp.text = "None"

\* Line 855: "rate limit" in error_str.lower() or "timeout" in error_str.lower().
IsTransientAlways(err) == TRUE

IsTransient(err) == err.rate_limit \/ err.timeout

\* Line 844: min(0.6, temperature + (DEFAULT_TEMPERATURE_INCREMENT * attempt)).
RetryTemperatureFlat(temp, a) ==
    Min(TemperatureCap, temp + DEFAULT_TEMPERATURE_INCREMENT)

RetryTemperature(temp, a) ==
    Min(TemperatureCap, temp + (DEFAULT_TEMPERATURE_INCREMENT * a))

GenInit ==
    /\ model \in ModelArguments
    /\ temperature \in Temperatures
    /\ gpc = "call"
    /\ model_to_use = None
    /\ attempt = 0
    /\ config_temperature = temperature
    /\ requests = <<>>
    /\ responses = <<>>
    /\ gen_outcome = [kind |-> "none", value |-> [type |-> "None"]]

GenIdle ==
    /\ model = None
    /\ temperature = DEFAULT_TEMPERATURE
    /\ gpc = "idle"
    /\ model_to_use = None
    /\ attempt = 0
    /\ config_temperature = DEFAULT_TEMPERATURE
    /\ requests = <<>>
    /\ responses = <<>>
    /\ gen_outcome = [kind |-> "none", value |-> [type |-> "None"]]

\* Lines 775-813: resolve the model, build the config, enter the loop.
GenResolve ==
    /\ gpc = "call"
    /\ LET m == ResolveModel(model)
       IN IF m.ok
          THEN /\ model_to_use' = m.model_to_use
               /\ config_temperature' = temperature
               /\ attempt' = 1
               /\ gpc' = "attempt"
               /\ gen_outcome' = gen_outcome
          ELSE /\ gen_outcome' = Raised(m.error)
               /\ gpc' = "done"
               /\ UNCHANGED <<model_to_use, config_temperature, attempt>>
    /\ UNCHANGED <<model, temperature, requests, responses>>
    /\ UNCHANGED <<batch_vars, assess_vars, case_vars, sim_vars>>

\* The end of one iteration that neither returned nor raised: the next
\* attempt of the for loop, or line 863 once the range is used up.
GenLoopStep(temp) ==
    /\ config_temperature' = temp
    /\ attempt' = attempt + 1
    /\ IF attempt + 1 \in AttemptRange
       THEN /\ gpc' = "attempt"
            /\ gen_outcome' = gen_outcome
       ELSE /\ gpc' = "done"
            /\ gen_outcome' = Raised(ValueError("LLM returned empty parsed data"))

GenStop(outcome) ==
    /\ gen_outcome' = outcome
    /\ gpc' = "done"
    /\ UNCHANGED <<config_temperature, attempt>>

\* Lines 814-860: one iteration of the retry loop, the request and what is
\* done with its answer.
GenAttempt(resp) ==
    /\ gpc = "attempt"
    /\ requests' = Append(requests, [model |-> model_to_use,
                                     temperature |-> config_temperature])
    /\ responses' = Append(responses, resp)
    /\ IF resp.type = "response"
       THEN IF LoggingRaises(resp)
            THEN GenStop(Raised(TypeError))
            ELSE IF ParsedIsValid(resp)
            THEN GenStop(Returned(resp))
            ELSE IF HasAttemptsLeft(attempt)
            THEN GenLoopStep(RetryTemperature(temperature, attempt))
            ELSE GenStop(Raised(ValueError(
                     "LLM returned empty parsed data after multiple attempts")))
       ELSE IF resp.type = "GoogleAPIError"
       THEN IF IsTransient(resp) /\ HasAttemptsLeft(attempt)
            THEN GenLoopStep(config_temperature)
            ELSE GenStop(Raised(resp))
       ELSE GenStop(Raised(resp))
    /\ UNCHANGED <<model, temperature, model_to_use>>
    /\ UNCHANGED <<batch_vars, assess_vars, case_vars, sim_vars>>

\* ======================================================================
\* The callers of generate_structured_content:
\* generate_mark_similarity_assessment, generate_gs_likelihood_assessment
\* (llm.py) and calculate_conceptual_similarity (similarity.py)
\* ======================================================================

Callers == {"generate_mark_similarity_assessment",
            "generate_gs_likelihood_assessment",
            "calculate_conceptual_similarity"}

\* The visual and aural scores a caller may pass, in hundredths: the ends of
\* [0,1], a value inside and one beyond each end.
Scores == {-10, 0, 60, 100, 150}

\* The fields of the object that generate_structured_content returned which
\* the callers or the schema look at. schema_ok tells whether the other
\* fields of the dumped object (enumerations, score ranges) fit the schema.
NoPayload ==
    [schema_ok |-> FALSE, reasoning |-> None, likelihood_of_confusion |-> FALSE,
     confusion_type |-> None, score |-> 0]

MarkSimilarityPayloads ==
    [schema_ok : BOOLEAN, reasoning : {None, "", "text"},
     likelihood_of_confusion : {FALSE}, confusion_type : {None}, score : {0}]

GoodServiceLikelihoodPayloads ==
    [schema_ok : BOOLEAN, reasoning : {None},
     likelihood_of_confusion : BOOLEAN,
     confusion_type : {None, "direct", "indirect"}, score : {0}]

ConceptualSimilarityPayloads ==
    [schema_ok : {TRUE}, reasoning : {None}, likelihood_of_confusion : {FALSE},
     confusion_type : {None}, score : {0, 50, 100}]

Payloads(c) ==
    CASE c = "generate_mark_similarity_assessment" -> MarkSimilarityPayloads
      [] c = "generate_gs_likelihood_assessment" -> GoodServiceLikelihoodPayloads
      [] c = "calculate_conceptual_similarity" -> ConceptualSimilarityPayloads

ValidationError == [type |-> "ValidationError"]

\* models.MarkSimilarityOutput.model_validate: reasoning is an optional
\* field, a missing one stays None.
MarkSimilarityOutputValidate(p) ==
    IF p.schema_ok
    THEN [ok |-> TRUE,
          value |-> [type |-> "MarkSimilarityOutput", reasoning |-> p.reasoning]]
    ELSE [ok |-> FALSE, error |-> ValidationError]

\* models.GoodServiceLikelihoodOutput.model_validate: confusion_type is
\* set to None when likelihood_of_confusion is false, and an object with a
\* likelihood of confusion and no confusion_type is not an instance.
GoodServiceLikelihoodOutputValidate(p) ==
    IF ~p.schema_ok THEN [ok |-> FALSE, error |-> ValidationError]
    ELSE IF ~p.likelihood_of_confusion
    THEN [ok |-> TRUE,
          value |-> [type |-> "GoodServiceLikelihoodOutput",
                     likelihood_of_confusion |-> FALSE,
                     confusion_type |-> None]]
    ELSE IF p.confusion_type = None THEN [ok |-> FALSE, error |-> ValidationError]
    ELSE [ok |-> TRUE,
          value |-> [type |-> "GoodServiceLikelihoodOutput",
                     likelihood_of_confusion |-> TRUE,
                     confusion_type |-> p.confusion_type]]

ModelValidate(c, p) ==
    IF c = "generate_mark_similarity_assessment"
    THEN MarkSimilarityOutputValidate(p)
    ELSE GoodServiceLikelihoodOutputValidate(p)

\* result.model_dump() handed on as it is.
ModelDump(c, p) ==
    IF c = "generate_mark_similarity_assessment"
    THEN [type |-> "MarkSimilarityOutput", reasoning |-> p.reasoning]
    ELSE [type |-> "GoodServiceLikelihoodOutput",
          likelihood_of_confusion |-> p.likelihood_of_confusion,
          confusion_type |-> p.confusion_type]

\* llm.py 620-628 and 694-702: the except clauses of the two assessors.
PropagateErrorWrapped(e) == ValueError("LLM output failed validation")

PropagateError(e) ==
    IF e.type = "GoogleAPIError" THEN e
    ELSE IF e.type = "ValidationError"
    THEN ValueError("LLM output failed validation")
    ELSE e

\* llm.py 615-618 and 689-692: validate the result and return it.
ValidatedAssessmentUnchecked(c, p) == Returned(ModelDump(c, p))

ValidatedAssessment(c, p) ==
    LET v == ModelValidate(c, p)
    IN IF v.ok THEN Returned(v.value) ELSE Raised(PropagateError(v.error))

Float(s) == [type |-> "float", score |-> s]

\* llm.py 722-738: the score of the result, or 0.5 after any error.
ConceptualScoreReraise(outcome, p) ==
    IF outcome.kind = "returned" THEN Returned(Float(p.score))
    ELSE IF outcome.value.type = "GoogleAPIError" THEN Raised(outcome.value)
    ELSE Returned(Float(50))

ConceptualScore(outcome, p) ==
    IF outcome.kind = "returned" THEN Returned(Float(p.score))
    ELSE IF outcome.value.type = "GoogleAPIError" THEN Returned(Float(50))
    ELSE IF outcome.value.type \in {"ValueError", "ValidationError"}
    THEN Returned(Float(50))
    ELSE Returned(Float(50))

\* The temperature each caller passes: DEFAULT_TEMPERATURE (llm.py 606,
\* 680) or 0.1 (llm.py 715).
CallerTemperature(c) ==
    IF c = "calculate_conceptual_similarity" THEN 10 ELSE DEFAULT_TEMPERATURE

NoOutcomeYet == [kind |-> "none", value |-> [type |-> "None"]]

AssessInit ==
    /\ caller \in Callers
    /\ IF caller = "calculate_conceptual_similarity"
       THEN assess_model = None
       ELSE assess_model \in ModelArguments
    /\ IF caller = "generate_mark_similarity_assessment"
       THEN visual_score \in Scores /\ aural_score \in Scores
       ELSE visual_score = 0 /\ aural_score = 0
    /\ IF caller = "calculate_conceptual_similarity"
       THEN made_up \in BOOLEAN \X BOOLEAN
       ELSE made_up = <<FALSE, FALSE>>
    /\ apc = "entry"
    /\ payload = NoPayload
    /\ assess_outcome = NoOutcomeYet

AssessIdle ==
    /\ caller = "generate_gs_likelihood_assessment"
    /\ assess_model = None
    /\ visual_score = 0
    /\ aural_score = 0
    /\ made_up = <<FALSE, FALSE>>
    /\ apc = "idle"
    /\ payload = NoPayload
    /\ assess_outcome = NoOutcomeYet

\* llm.py 591-612, 661-686, 707-719 and similarity.py 103: format the
\* prompt and call generate_structured_content. Nothing is looked at before
\* the call: not the scores, not the marks.
AssessCall ==
    /\ apc = "entry"
    /\ gpc = "idle"
    /\ apc' = "awaiting"
    /\ model' = assess_model
    /\ temperature' = CallerTemperature(caller)
    /\ config_temperature' = CallerTemperature(caller)
    /\ gpc' = "call"
    /\ UNCHANGED <<model_to_use, attempt, requests, responses, gen_outcome>>
    /\ UNCHANGED <<caller, assess_model, visual_score, aural_score, made_up,
                   payload, assess_outcome>>
    /\ UNCHANGED <<batch_vars, case_vars, sim_vars>>

\* llm.py 614-628, 688-702, 721-738: what the caller does with the result
\* or the error of generate_structured_content.
AssessFinish(p) ==
    /\ apc = "awaiting"
    /\ gpc = "done"
    /\ IF gen_outcome.kind = "returned"
       THEN p \in Payloads(caller)
       ELSE p = NoPayload
    /\ payload' = p
    /\ assess_outcome' =
         IF caller = "calculate_conceptual_similarity"
         THEN ConceptualScore(gen_outcome, p)
         ELSE IF gen_outcome.kind = "returned"
         THEN ValidatedAssessment(caller, p)
         ELSE Raised(PropagateError(gen_outcome.value))
    /\ apc' = "done"
    /\ UNCHANGED <<caller, assess_model, visual_score, aural_score, made_up>>
    /\ UNCHANGED <<batch_vars, gen_vars, case_vars, sim_vars>>

\* ======================================================================
\* The /case_prediction endpoint (api/main.py)
\* ======================================================================

\* The GoodServiceLikelihoodOutput instances a request can hold, by the two
\* fields the endpoint and its consumers read.
LikelihoodItems ==
    {[likelihood_of_confusion |-> FALSE, confusion_type |-> None],
     [likelihood_of_confusion |-> TRUE, confusion_type |-> "direct"],
     [likelihood_of_confusion |-> TRUE, confusion_type |-> "indirect"]}

LikelihoodLists ==
    UNION {[1..n -> LikelihoodItems] : n \in 0..MaxLikelihoods}

\* models.CasePredictionRequest: goods_services_likelihoods holds at least
\* one item.
CasePredictionRequestAcceptsAll(l) == TRUE

CasePredictionRequestValidate(l) == Len(l) >= 1

\* api/main.py 166-167: all(...) and any(...) over the list.
AllConfusion(l) == \A j \in DOMAIN l : l[j].likelihood_of_confusion
AnyConfusion(l) == \E j \in DOMAIN l : l[j].likelihood_of_confusion

\* api/main.py 188: sum(1 for gs in ... if gs.likelihood_of_confusion).
ConfusedCount(l) == Cardinality({j \in DOMAIN l : l[j].likelihood_of_confusion})

\* api/main.py 166-196: the local variables at the end of the if/elif/else.
DecideAnyFirst(l) ==
    IF AnyConfusion(l)
    THEN [all_confusion |-> AllConfusion(l), any_confusion |-> AnyConfusion(l),
          result |-> "Opposition likely to succeed", confidence |-> 90]
    ELSE IF ~AllConfusion(l)
    THEN [all_confusion |-> AllConfusion(l), any_confusion |-> AnyConfusion(l),
          result |-> "Opposition likely to fail", confidence |-> 90]
    ELSE [all_confusion |-> AllConfusion(l), any_confusion |-> AnyConfusion(l),
          result |-> "Opposition may partially succeed",
          confused_count |-> ConfusedCount(l), total_count |-> Len(l),
          confidence |-> 70]

Decide(l) ==
    IF AllConfusion(l)
    THEN [all_confusion |-> AllConfusion(l), any_confusion |-> AnyConfusion(l),
          result |-> "Opposition likely to succeed", confidence |-> 90]
    ELSE IF ~AnyConfusion(l)
    THEN [all_confusion |-> AllConfusion(l), any_confusion |-> AnyConfusion(l),
          result |-> "Opposition likely to fail", confidence |-> 90]
    ELSE [all_confusion |-> AllConfusion(l), any_confusion |-> AnyConfusion(l),
          result |-> "Opposition may partially succeed",
          confused_count |-> ConfusedCount(l), total_count |-> Len(l),
          confidence |-> 70]

NoOppositionOutcome == [result |-> None, confidence |-> 0]
NoResponse == [status_code |-> 0, body |-> None]

CaseInit ==
    /\ goods_services_likelihoods \in LikelihoodLists
    /\ cpc = "request"
    /\ locals = <<>>
    /\ opposition_outcome = NoOppositionOutcome
    /\ http_response = NoResponse

CaseIdle ==
    /\ goods_services_likelihoods = <<>>
    /\ cpc = "idle"
    /\ locals = <<>>
    /\ opposition_outcome = NoOppositionOutcome
    /\ http_response = NoResponse

\* api/main.py 146: the body is parsed into models.CasePredictionRequest
\* before the handler runs; a body that is not one is answered with 422.
CaseValidateRequest ==
    /\ cpc = "request"
    /\ IF CasePredictionRequestValidate(goods_services_likelihoods)
       THEN /\ cpc' = "handler"
            /\ http_response' = http_response
       ELSE /\ cpc' = "done"
            /\ http_response' = [status_code |-> 422, body |-> "ValidationError"]
    /\ UNCHANGED <<goods_services_likelihoods, locals, opposition_outcome>>
    /\ UNCHANGED <<batch_vars, gen_vars, assess_vars, sim_vars>>

\* api/main.py 164-196: the outcome category, confidence and reasoning.
CaseDecide ==
    /\ cpc = "handler"
    /\ locals' = Decide(goods_services_likelihoods)
    /\ cpc' = "construct"
    /\ UNCHANGED <<goods_services_likelihoods, opposition_outcome, http_response>>
    /\ UNCHANGED <<batch_vars, gen_vars, assess_vars, sim_vars>>

\* api/main.py 198-212: build the OppositionOutcome and the result.
CaseRespond ==
    /\ cpc = "construct"
    /\ opposition_outcome' = [result |-> locals.result,
                              confidence |-> locals.confidence]
    /\ http_response' = [status_code |-> 200, body |-> "CasePredictionResult"]
    /\ cpc' = "done"
    /\ UNCHANGED <<goods_services_likelihoods, locals>>
    /\ UNCHANGED <<batch_vars, gen_vars, assess_vars, sim_vars>>

\* ======================================================================
\* The similarity scores of two wordmarks (similarity.py)
\* ======================================================================

\* A wordmark is a sequence of characters. The characters a mark is made
\* of: a lower-case letter, the same letter in upper case, another letter
\* and a blank.
Chars == {"a", "A", "b", " "}

Marks == UNION {[1..n -> Chars] : n \in 0..MaxMarkLen}

\* A score is a fraction in lowest terms, so that equal scores are equal
\* values.
RECURSIVE GCD(_, _)
GCD(x, y) == IF y = 0 THEN x ELSE GCD(y, x % y)

Rat(n, d) == [num |-> n \div GCD(n, d), den |-> d \div GCD(n, d)]

RatLess(x, y) == x.num * y.den < y.num * x.den

RatAdd(x, y) == Rat(x.num * y.den + y.num * x.den, x.den * y.den)

RatMul(x, y) == Rat(x.num * y.num, x.den * y.den)

\* str.lower(), character by character.
LowerChar(ch) == IF ch = "A" THEN "a" ELSE IF ch = "B" THEN "b" ELSE ch

LowerIdentity(str) == str

Lower(str) == [j \in DOMAIN str |-> LowerChar(str[j])]

\* str.strip(): without the leading and the trailing whitespace.
Strip(str) ==
    LET S == {j \in DOMAIN str : str[j] # " "}
    IN IF S = {} THEN <<>>
       ELSE SubSeq(str, CHOOSE j \in S : \A k \in S : j <= k,
                        CHOOSE j \in S : \A k \in S : j >= k)

\* similarity.py 36-37 and 60-61: mark.lower().strip().
NormalizeNoStrip(mark) == Lower(mark)

Normalize(mark) == Strip(Lower(mark))

\* The length of a longest common subsequence.
RECURSIVE LCS(_, _)
LCS(x, y) ==
    IF x = <<>> \/ y = <<>> THEN 0
    ELSE IF Head(x) = Head(y) THEN 1 + LCS(Tail(x), Tail(y))
    ELSE LET l == LCS(Tail(x), y)
             r == LCS(x, Tail(y))
         IN IF l > r THEN l ELSE r

\* Levenshtein.ratio: 1 - d / (len(x) + len(y)), where d is the edit
\* distance with insertions and deletions of cost 1 and substitutions of
\* cost 2, that is len(x) + len(y) - 2 * LCS; 1.0 for two empty strings.
RatioByFirstLength(x, y) ==
    IF Len(x) + Len(y) = 0 THEN Rat(1, 1)
    ELSE IF Len(x) = 0 THEN Rat(0, 1)
    ELSE Rat(2 * LCS(x, y), 2 * Len(x))

Ratio(x, y) ==
    IF Len(x) + Len(y) = 0 THEN Rat(1, 1)
    ELSE Rat(2 * LCS(x, y), Len(x) + Len(y))

\* similarity.py 24-46.
calculate_visual_similarity(m1, m2) ==
    LET n1 == Normalize(m1)
        n2 == Normalize(m2)
    IN IF n1 = <<>> /\ n2 = <<>> THEN Rat(1, 1)
       ELSE IF n1 = <<>> \/ n2 = <<>> THEN Rat(0, 1)
       ELSE Ratio(n1, n2)

\* What doublemetaphone gives for a mark: a primary and an alternate code,
\* each possibly empty.
NoCodes == <<<<>>, <<>>>>

DoubleMetaphoneResults ==
    {NoCodes,
     <<<<"K">>, <<>>>>,
     <<<<"K", "T">>, <<>>>>,
     <<<<"K", "T">>, <<"K">>>>,
     <<<<"T">>, <<>>>>,
     <<<<"T">>, <<"K">>>>}

\* max(...) of a non-empty set of scores.
RatMax(S) == CHOOSE x \in S : \A y \in S : ~RatLess(x, y)

\* similarity.py 73-86: from the codes of the two marks to the score.
AuralFromCodesBothAlternates(c1, c2) ==
    LET primary_sim == Ratio(c1[1], c2[1])
        alt_sims ==
            IF c1[2] # <<>> /\ c2[2] # <<>>
            THEN {Ratio(c1[2], c2[2]), Ratio(c1[1], c2[2]), Ratio(c1[2], c2[1])}
            ELSE {}
    IN IF alt_sims # {} THEN RatMax({primary_sim} \cup alt_sims)
       ELSE primary_sim

AuralFromCodes(c1, c2) ==
    LET primary_sim == Ratio(c1[1], c2[1])
        alt_sims ==
            (IF c1[2] # <<>> /\ c2[2] # <<>>
             THEN {Ratio(c1[2], c2[2])} ELSE {})
            \cup (IF c1[1] # <<>> /\ c2[2] # <<>>
                  THEN {Ratio(c1[1], c2[2])} ELSE {})
            \cup (IF c1[2] # <<>> /\ c2[1] # <<>>
                  THEN {Ratio(c1[2], c2[1])} ELSE {})
    IN IF alt_sims # {} THEN RatMax({primary_sim} \cup alt_sims)
       ELSE primary_sim

\* similarity.py 48-86, given what doublemetaphone answers for each mark.
calculate_aural_similarity(m1, m2, c1, c2) ==
    LET n1 == Normalize(m1)
        n2 == Normalize(m2)
    IN IF n1 = <<>> /\ n2 = <<>> THEN Rat(1, 1)
       ELSE IF n1 = <<>> \/ n2 = <<>> THEN Rat(0, 1)
       ELSE AuralFromCodes(c1, c2)

\* similarity.py 123-133.
score_to_enum_inclusive(score) ==
    IF ~RatLess(score, Rat(9, 10)) THEN "identical"
    ELSE IF ~RatLess(score, Rat(7, 10)) THEN "high"
    ELSE IF ~RatLess(score, Rat(5, 10)) THEN "moderate"
    ELSE IF ~RatLess(score, Rat(3, 10)) THEN "low"
    ELSE "dissimilar"

score_to_enum(score) ==
    IF RatLess(Rat(9, 10), score) THEN "identical"
    ELSE IF RatLess(Rat(7, 10), score) THEN "high"
    ELSE IF RatLess(Rat(5, 10), score) THEN "moderate"
    ELSE IF RatLess(Rat(3, 10), score) THEN "low"
    ELSE "dissimilar"

\* similarity.py 141-151: the weighted sum.
weights == [visual |-> Rat(40, 100), aural |-> Rat(35, 100),
            conceptual |-> Rat(25, 100)]

OverallScoreUnweighted(v, a, c) == RatMul(Rat(1, 3), RatAdd(RatAdd(v, a), c))

OverallScore(v, a, c) ==
    RatAdd(RatAdd(RatMul(weights.visual, v), RatMul(weights.aural, a)),
           RatMul(weights.conceptual, c))

\* What calculate_conceptual_similarity can answer, in [0,1].
ConceptualScores == {Rat(c, 100) : c \in {0, 50, 100}}

NoSimilarityOutput ==
    [visual |-> None, aural |-> None, conceptual |-> None, overall |-> None]

SimInit ==
    /\ mark1 \in Marks
    /\ mark2 \in Marks
    /\ metaphone = <<NoCodes, NoCodes>>
    /\ spc = "entry"
    /\ visual_sim = Rat(0, 1)
    /\ aural_sim = Rat(0, 1)
    /\ conceptual_sim = Rat(0, 1)
    /\ similarity_output = NoSimilarityOutput

SimIdle ==
    /\ mark1 = <<>>
    /\ mark2 = <<>>
    /\ metaphone = <<NoCodes, NoCodes>>
    /\ spc = "idle"
    /\ visual_sim = Rat(0, 1)
    /\ aural_sim = Rat(0, 1)
    /\ conceptual_sim = Rat(0, 1)
    /\ similarity_output = NoSimilarityOutput

\* similarity.py 117-120: the visual and the aural score, then the await of
\* calculate_conceptual_similarity. doublemetaphone is called when both
\* normalized marks are non-empty, and answers the same for the same string.
SimScores(c1, c2) ==
    /\ spc = "entry"
    /\ IF Normalize(mark1) # <<>> /\ Normalize(mark2) # <<>>
       THEN Normalize(mark1) = Normalize(mark2) => c1 = c2
       ELSE c1 = NoCodes /\ c2 = NoCodes
    /\ metaphone' = <<c1, c2>>
    /\ visual_sim' = calculate_visual_similarity(mark1, mark2)
    /\ aural_sim' = calculate_aural_similarity(mark1, mark2, c1, c2)
    /\ spc' = "conceptual"
    /\ UNCHANGED <<mark1, mark2, conceptual_sim, similarity_output>>
    /\ UNCHANGED <<batch_vars, gen_vars, assess_vars, case_vars>>

\* similarity.py 120-161: the conceptual score arrives; the levels and the
\* weighted overall level make the MarkSimilarityOutput.
SimOutput(c) ==
    /\ spc = "conceptual"
    /\ conceptual_sim' = c
    /\ similarity_output' =
         [visual |-> score_to_enum(visual_sim),
          aural |-> score_to_enum(aural_sim),
          conceptual |-> score_to_enum(c),
          overall |-> score_to_enum(OverallScore(visual_sim, aural_sim, c))]
    /\ spc' = "done"
    /\ UNCHANGED <<mark1, mark2, metaphone, visual_sim, aural_sim>>
    /\ UNCHANGED <<batch_vars, gen_vars, assess_vars, case_vars>>

\* ======================================================================
\* Specifications
\* ======================================================================

BatchNext ==
    \/ BatchEntry
    \/ StartChunk
    \/ \E k \in DOMAIN task : TaskStart(k)
    \/ \E k \in DOMAIN task : \E ok \in BOOLEAN : TaskSettle(k, ok)
    \/ GatherDone
    \/ SleepElapsed
    \/ Finish

InitBatch == BatchInit /\ GenIdle /\ AssessIdle /\ CaseIdle /\ SimIdle

SpecBatch == InitBatch /\ [][BatchNext]_vars

GenNext ==
    \/ GenResolve
    \/ \E resp \in ServiceResponses : GenAttempt(resp)

InitGen == GenInit /\ BatchIdle /\ AssessIdle /\ CaseIdle /\ SimIdle

SpecGen == InitGen /\ [][GenNext]_vars

AllPayloads == UNION {Payloads(c) : c \in Callers} \cup {NoPayload}

AssessNext ==
    \/ AssessCall
    \/ GenResolve
    \/ \E resp \in ServiceResponses : GenAttempt(resp)
    \/ \E p \in AllPayloads : AssessFinish(p)

InitAssess == AssessInit /\ GenIdle /\ BatchIdle /\ CaseIdle /\ SimIdle

SpecAssess == InitAssess /\ [][AssessNext]_vars

CaseNext ==
    \/ CaseValidateRequest
    \/ CaseDecide
    \/ CaseRespond

InitCase == CaseInit /\ GenIdle /\ BatchIdle /\ AssessIdle /\ SimIdle

SpecCase == InitCase /\ [][CaseNext]_vars

SimNext ==
    \/ \E c1, c2 \in DoubleMetaphoneResults : SimScores(c1, c2)
    \/ \E c \in ConceptualScores : SimOutput(c)

InitSim == SimInit /\ GenIdle /\ BatchIdle /\ AssessIdle /\ CaseIdle

SpecSim == InitSim /\ [][SimNext]_vars

\* ======================================================================
\* Properties of batch_process_goods_services (checked under SpecBatch)
\* ======================================================================

N == Len(applicant_goods)
M == Len(opponent_goods)

Failed == {k \in DOMAIN task : task[k] = "error"}

\* The 0-based number of the chunk that pair k belongs to.
ChunkOf(k) == (k - 1) \div 3

\* How often pair k occurs in a list of results.
Occurrences(results, k) ==
    Cardinality({p \in DOMAIN results : results[p].pair = k})

RECURSIVE SumCalls(_)
SumCalls(k) == IF k = 0 THEN 0 ELSE calls[k] + SumCalls(k - 1)

TotalCalls == SumCalls(Len(calls))

\* C1: when the call is over and no assessment failed, it returned a list of
\* exactly N*M results, and every (applicant_good, opponent_good) pair of the
\* cross-product contributed exactly one of them.
C1_BatchCompleteness ==
    (bpc = "done" /\ Failed = {}) =>
        /\ batch_outcome.kind = "returned"
        /\ Len(batch_outcome.value) = N * M
        /\ \A a \in 1..N : \A b \in 1..M :
             Cardinality({p \in DOMAIN batch_outcome.value :
                 combinations[batch_outcome.value[p].pair]
                     = <<applicant_goods[a], opponent_goods[b]>>}) = 1

C1_Witness ==
    /\ bpc = "done"
    /\ Failed = {}
    /\ N = 2
    /\ M = 3
    /\ batch_outcome.kind = "returned"
    /\ Len(batch_outcome.value) = 6

\* C2: in the default (tolerant) mode, a call in which exactly one pair
\* assessment failed returns the N*M-1 results of the other pairs and does
\* not raise.
C2_TolerantPartialResults ==
    (bpc = "done" /\ ~strict_failure_mode /\ Cardinality(Failed) = 1) =>
        /\ batch_outcome.kind = "returned"
        /\ Len(batch_outcome.value) = N * M - 1
        /\ \A k \in DOMAIN task :
             Occurrences(batch_outcome.value, k) = IF k \in Failed THEN 0 ELSE 1

\* C3: in strict mode, once a failure has been observed the batch neither
\* sleeps nor awaits another chunk, and no pair of a chunk after the failing
\* one is ever scheduled or assessed.
C3_StrictAbortsImmediately ==
    strict_failure_mode =>
        /\ error_count > 0 => bpc \notin {"sleep", "gather"}
        /\ \A j \in DOMAIN task : \A k \in DOMAIN task :
             (task[j] = "error" /\ ChunkOf(j) < ChunkOf(k)) => task[k] = "none"

\* C4: at most 3 assessments are in flight, and an assessment of a chunk is
\* scheduled only when every assessment of the chunks before it has settled
\* and one inter-chunk delay per earlier chunk has elapsed.
C4_ChunksSequential ==
    /\ Cardinality(InFlight) <= 3
    /\ \A k \in DOMAIN task :
         task[k] # "none" =>
            /\ \A j \in 1..(3 * ChunkOf(k)) : Settled(j)
            /\ slept >= ChunkOf(k)

C4_Witness ==
    /\ Cardinality(InFlight) = 3
    /\ \E k \in DOMAIN task : task[k] = "running" /\ ChunkOf(k) = 1
    /\ \E j \in DOMAIN task : task[j] = "error" /\ ChunkOf(j) = 0
    /\ slept = 1

C6_EmptyInput ==
    (N = 0 \/ M = 0) =>
        /\ TotalCalls = 0
        /\ InFlight = {}
        /\ batch_outcome.kind # "raised"
        /\ bpc = "done" =>
             /\ batch_outcome.kind = "returned"
             /\ batch_outcome.value = <<>>

C6_Witness ==
    /\ N = 0
    /\ M = 2
    /\ bpc = "done"
    /\ batch_outcome.kind = "returned"

\* The earliest failing pair, in cross-product order.
FirstFailed == CHOOSE k \in Failed : \A f \in Failed : k <= f

C29_ResultsInCrossProductOrder ==
    (bpc = "done" /\ Failed = {}) =>
        /\ batch_outcome.kind = "returned"
        /\ \A p \in DOMAIN batch_outcome.value :
             /\ batch_outcome.value[p].pair = p
             /\ combinations[p] = <<applicant_goods[((p - 1) \div M) + 1],
                                    opponent_goods[((p - 1) % M) + 1]>>

C29_Witness ==
    /\ bpc = "done"
    /\ N = 2
    /\ M = 2
    /\ batch_outcome.kind = "returned"
    /\ Len(batch_outcome.value) = 4
    /\ combinations[batch_outcome.value[3].pair]
         = <<applicant_goods[2], opponent_goods[1]>>

\* ======================================================================
\* Properties of generate_structured_content (checked under SpecGen)
\* ======================================================================

\* A response whose structured output is empty or missing.
EmptyOutput(resp) == resp.type = "response" /\ ~resp.parsed

TransientError(resp) ==
    resp.type = "GoogleAPIError" /\ (resp.rate_limit \/ resp.timeout)

\* The last attempt before attempt j that was answered by an empty output,
\* or 0 when there is none.
LastEmptyBefore(j) ==
    LET S == {e \in 1..(j - 1) : EmptyOutput(responses[e])}
    IN IF S = {} THEN 0 ELSE CHOOSE e \in S : \A f \in S : f <= e

\* C7: a call sends at most 3 requests; what it returns is a non-empty
\* parsed output; and a third attempt answered by an empty or missing output
\* ends the call with an error.
C7_AtMostThreeRequests ==
    /\ Len(requests) <= 3
    /\ gen_outcome.kind = "returned" =>
         /\ gen_outcome.value.type = "response"
         /\ gen_outcome.value.parsed
    /\ (Len(responses) = 3 /\ EmptyOutput(responses[3])) =>
         /\ gpc = "done"
         /\ gen_outcome.kind = "raised"

C7_Witness ==
    /\ Len(requests) = 3
    /\ TransientError(responses[1])
    /\ EmptyOutput(responses[2])
    /\ EmptyOutput(responses[3])
    /\ gen_outcome.kind = "raised"
    /\ gen_outcome.value.type = "ValueError"

\* C8 (as claimed): attempt 1 is sent at the caller's temperature and every
\* later attempt j at min(0.6, temperature + 0.1 * (j - 1)), whatever failure
\* led to the retry.
C8_ScheduleForEveryRetry ==
    \A j \in DOMAIN requests :
        requests[j].temperature =
            IF j = 1 THEN temperature
            ELSE Min(60, temperature + 10 * (j - 1))

\* C8 (amended): a request is sent at the caller's temperature while no
\* earlier attempt gave an empty output, and at min(0.6, temperature + 0.1*e)
\* when e is the last earlier attempt that gave an empty output (a retry
\* after a transient API error keeps the temperature of the attempt before
\* it); a third attempt that gives no valid output ends the call with an
\* error.
C8_ScheduleAfterEmptyOutput ==
    /\ \A j \in DOMAIN requests :
         requests[j].temperature =
            IF LastEmptyBefore(j) = 0 THEN temperature
            ELSE Min(60, temperature + 10 * LastEmptyBefore(j))
    /\ (Len(responses) = 3 /\ gen_outcome.kind # "returned") =>
         /\ gpc = "done"
         /\ gen_outcome.kind = "raised"

C8_Witness ==
    /\ temperature = 20
    /\ Len(requests) = 3
    /\ EmptyOutput(responses[1])
    /\ TransientError(responses[2])
    /\ requests[2].temperature = 30
    /\ requests[3].temperature = 30
    /\ EmptyOutput(responses[3])
    /\ gen_outcome.kind = "raised"

\* C9: a GoogleAPIError outside the rate-limit/timeout pattern ends the call
\* with that very error and is the last answer of the call; one inside the
\* pattern on attempt 1 or 2 leads to the next attempt, and on attempt 3 it
\* is raised to the caller.
C9_ApiErrorPropagation ==
    \A j \in DOMAIN responses :
        responses[j].type = "GoogleAPIError" =>
            IF TransientError(responses[j]) /\ j < 3
            THEN \/ Len(requests) > j
                 \/ gpc = "attempt" /\ attempt = j + 1
            ELSE /\ Len(requests) = j
                 /\ Len(responses) = j
                 /\ gpc = "done"
                 /\ gen_outcome = Raised(responses[j])

C9_Witness ==
    /\ Len(responses) = 3
    /\ TransientError(responses[1])
    /\ TransientError(responses[2])
    /\ TransientError(responses[3])
    /\ gen_outcome = Raised(responses[3])

\* C10: with a model name outside the supported set no request is ever sent
\* and the call ends with the invalid-argument error; every request names
\* the default model when none was given and the given model otherwise.
C10_ModelValidation ==
    /\ model \notin (SUPPORTED_MODELS \cup {None}) =>
         /\ requests = <<>>
         /\ gen_outcome.kind # "returned"
         /\ gpc = "done" => gen_outcome = Raised(ValueError("Unsupported model"))
    /\ \A j \in DOMAIN requests :
         requests[j].model =
            IF model = None THEN "gemini-2.5-pro-preview-03-25" ELSE model

C10_Witness ==
    /\ model = "nonexistent-model-name"
    /\ gpc = "done"
    /\ gen_outcome.kind = "raised"
    /\ gen_outcome.value.type = "ValueError"
    /\ requests = <<>>

\* C30: within a call, each request is sent at a temperature that is not
\* lower than the temperature of the request before it.
C30_TemperatureNeverDecreases ==
    \A j \in DOMAIN requests :
        j > 1 => requests[j].temperature >= requests[j - 1].temperature

\* ======================================================================
\* Properties of the two assessors and of calculate_conceptual_similarity
\* (checked under SpecAssess)
\* ======================================================================

Assessor ==
    caller \in {"generate_mark_similarity_assessment",
                "generate_gs_likelihood_assessment"}

\* The structured output the assessor ended on was empty, or was an object
\* that does not validate against the schema.
InvalidOutputSeen ==
    \/ /\ responses # <<>>
       /\ EmptyOutput(responses[Len(responses)])
    \/ /\ gen_outcome.kind = "returned"
       /\ ~ModelValidate(caller, payload).ok

\* The error raised for a bad request: an unsupported model name.
BadRequestError == ResolveModel("nonexistent-model-name").error

C12_ClientErrorsUnchanged ==
    (Assessor /\ gen_outcome.kind = "raised"
              /\ gen_outcome.value.type \in {"GoogleAPIError", "Exception"}) =>
        /\ assess_outcome.kind # "returned"
        /\ apc = "done" => assess_outcome = Raised(responses[Len(responses)])

C12_Witness ==
    /\ caller = "generate_gs_likelihood_assessment"
    /\ apc = "done"
    /\ Len(responses) = 3
    /\ TransientError(responses[3])
    /\ assess_outcome = Raised(responses[3])

\* C13: generate_mark_similarity_assessment called with a visual or aural
\* score outside [0,1] sends no request and ends with a validation error.
C13_ScoresRejectedBeforeRequest ==
    (/\ caller = "generate_mark_similarity_assessment"
     /\ \/ visual_score \notin 0..100
        \/ aural_score \notin 0..100) =>
        /\ requests = <<>>
        /\ assess_outcome.kind # "returned"

\* C14: what generate_mark_similarity_assessment returns has a reasoning
\* text that is neither missing nor empty.
C14_ReasoningNeverMissing ==
    (/\ caller = "generate_mark_similarity_assessment"
     /\ assess_outcome.kind = "returned") =>
        assess_outcome.value.reasoning \notin {None, ""}

C20_CoinedMarkNoRequest ==
    (/\ caller = "calculate_conceptual_similarity"
     /\ (made_up[1] \/ made_up[2])) =>
        /\ requests = <<>>
        /\ apc = "done" => assess_outcome = Returned(Float(0))

\* C21: the conceptual score never ends with an error: after any error of
\* generate_structured_content the caller gets exactly 0.5.
C21_ConceptualFallback ==
    caller = "calculate_conceptual_similarity" =>
        /\ assess_outcome.kind # "raised"
        /\ (apc = "done" /\ gen_outcome.kind = "raised") =>
              assess_outcome = Returned(Float(50))

C21_Witness ==
    /\ caller = "calculate_conceptual_similarity"
    /\ apc = "done"
    /\ Len(responses) = 3
    /\ responses[3].type = "GoogleAPIError"
    /\ gen_outcome = Raised(responses[3])
    /\ assess_outcome = Returned(Float(50))

\* ======================================================================
\* Properties of the /case_prediction endpoint (checked under SpecCase)
\* ======================================================================

\* The pairs of the request with a likelihood of confusion.
Confused ==
    {j \in DOMAIN goods_services_likelihoods :
        goods_services_likelihoods[j].likelihood_of_confusion}

Answered == cpc = "done" /\ http_response.status_code = 200

\* C16: every case prediction that has an outcome got it from a request to
\* the reasoning service; none is computed by the endpoint alone.
C16_OutcomeFromReasoningRequest ==
    opposition_outcome # NoOppositionOutcome => requests # <<>>

\* C17: for a non-empty list the outcome is "Opposition likely to succeed"
\* with confidence at least 0.8 when every pair is confused, "Opposition
\* likely to fail" with confidence at least 0.8 when none is, and
\* "Opposition may partially succeed" when some but not all are.
C17_OutcomeCategories ==
    (Answered /\ Len(goods_services_likelihoods) >= 1) =>
        LET n == Len(goods_services_likelihoods)
            k == Cardinality(Confused)
        IN /\ k = n => /\ opposition_outcome.result = "Opposition likely to succeed"
                       /\ opposition_outcome.confidence >= 80
           /\ k = 0 => /\ opposition_outcome.result = "Opposition likely to fail"
                       /\ opposition_outcome.confidence >= 80
           /\ (0 < k /\ k < n) =>
                 opposition_outcome.result = "Opposition may partially succeed"

C17_Witness ==
    /\ Answered
    /\ Len(goods_services_likelihoods) = 3
    /\ Cardinality(Confused) = 2
    /\ opposition_outcome.result = "Opposition may partially succeed"

\* C18: an answered case prediction has computed the total n, the confused
\* count k, the confused percentage 100*k/n and direct and indirect counts
\* that sum to k.
C18_StatisticsComputed ==
    Answered =>
        LET n == Len(goods_services_likelihoods)
            k == Cardinality(Confused)
        IN /\ {"total_count", "confused_count", "confused_percentage",
               "direct_count", "indirect_count"} \subseteq DOMAIN locals
           /\ locals.total_count = n
           /\ locals.confused_count = k
           /\ locals.confused_percentage * n = 100 * k
           /\ locals.direct_count + locals.indirect_count = k

\* C19: a request with an empty likelihood list never reaches the handler,
\* never gets an OppositionOutcome and is answered with a validation error.
C19_EmptyListRejected ==
    goods_services_likelihoods = <<>> =>
        /\ cpc \notin {"handler", "construct"}
        /\ opposition_outcome = NoOppositionOutcome
        /\ cpc = "done" => http_response = [status_code |-> 422,
                                            body |-> "ValidationError"]

C19_Witness ==
    /\ goods_services_likelihoods = <<>>
    /\ cpc = "done"
    /\ http_response.status_code = 422
    /\ opposition_outcome = NoOppositionOutcome

\* ======================================================================
\* Properties of the similarity scores (checked under SpecSim)
\* ======================================================================

\* The mark is empty once its whitespace is trimmed.
AllBlank(mark) == \A j \in DOMAIN mark : mark[j] = " "

\* The mark without its leading and trailing blanks.
Trimmed(mark) ==
    LET S == {j \in DOMAIN mark : mark[j] # " "}
    IN IF S = {} THEN <<>>
       ELSE SubSeq(mark, CHOOSE j \in S : \A k \in S : j <= k,
                         CHOOSE j \in S : \A k \in S : j >= k)

\* Two strings that differ in letter case at most.
SameIgnoringCase(x, y) ==
    /\ Len(x) = Len(y)
    /\ \A j \in DOMAIN x :
         x[j] = y[j] \/ {x[j], y[j]} \in {{"a", "A"}, {"b", "B"}}

Scored == spc \in {"conceptual", "done"}

\* C22: the visual and the aural score are 1.0 when both marks are empty
\* after trimming, and 0.0 when exactly one of them is.
C22_EmptyMarks ==
    Scored =>
        /\ (AllBlank(mark1) /\ AllBlank(mark2)) =>
              visual_sim = Rat(1, 1) /\ aural_sim = Rat(1, 1)
        /\ (AllBlank(mark1) # AllBlank(mark2)) =>
              visual_sim = Rat(0, 1) /\ aural_sim = Rat(0, 1)

C22_Witness ==
    /\ Scored
    /\ mark1 = <<" ", " ">>
    /\ mark2 = <<"a">>
    /\ visual_sim = Rat(0, 1)
    /\ aural_sim = Rat(0, 1)

\* C23: both scores are the same with the two marks swapped.
C23_Symmetry ==
    Scored =>
        /\ visual_sim = calculate_visual_similarity(mark2, mark1)
        /\ aural_sim = calculate_aural_similarity(mark2, mark1,
                                                  metaphone[2], metaphone[1])

C23_Witness ==
    /\ Scored
    /\ mark1 = <<"a">>
    /\ mark2 = <<"a", "b">>
    /\ metaphone[1][2] = <<>>
    /\ metaphone[2][2] # <<>>
    /\ visual_sim = Rat(2, 3)

\* C24: both scores are 1.0 for two non-empty marks that are equal after
\* trimming and lower-casing.
C24_NormalizedEqualIsOne ==
    (/\ Scored
     /\ ~AllBlank(mark1)
     /\ SameIgnoringCase(Trimmed(mark1), Trimmed(mark2))) =>
        visual_sim = Rat(1, 1) /\ aural_sim = Rat(1, 1)

C24_Witness ==
    /\ Scored
    /\ mark1 = <<" ", "A">>
    /\ mark2 = <<"a">>
    /\ visual_sim = Rat(1, 1)
    /\ aural_sim = Rat(1, 1)

Levels == {"identical", "high", "moderate", "low", "dissimilar"}

\* The score n/d lies in the band of the level: above the level's threshold
\* and not above the threshold of the next level up.
InBand(n, d, level) ==
    CASE level = "identical" -> 10 * n > 9 * d
      [] level = "high" -> 10 * n > 7 * d /\ 10 * n <= 9 * d
      [] level = "moderate" -> 10 * n > 5 * d /\ 10 * n <= 7 * d
      [] level = "low" -> 10 * n > 3 * d /\ 10 * n <= 5 * d
      [] level = "dissimilar" -> 10 * n <= 3 * d

\* The level is the one level whose band holds the score.
IsLevelOf(level, score) ==
    {l \in Levels : InBand(score.num, score.den, l)} = {level}

\* C25: each level of the output is the single level whose band holds the
\* score, and the overall level is that of
\* 0.40*visual + 0.35*aural + 0.25*conceptual.
C25_LevelsAndWeights ==
    spc = "done" =>
        LET v == visual_sim
            a == aural_sim
            c == conceptual_sim
            n == 40 * v.num * a.den * c.den + 35 * a.num * v.den * c.den
                   + 25 * c.num * v.den * a.den
            d == 100 * v.den * a.den * c.den
        IN /\ IsLevelOf(similarity_output.visual, v)
           /\ IsLevelOf(similarity_output.aural, a)
           /\ IsLevelOf(similarity_output.conceptual, c)
           /\ {l \in Levels : InBand(n, d, l)} = {similarity_output.overall}

C25_Witness ==
    /\ spc = "done"
    /\ visual_sim = Rat(2, 3)
    /\ aural_sim = Rat(1, 1)
    /\ conceptual_sim = Rat(1, 2)
    /\ similarity_output = [visual |-> "moderate", aural |-> "identical",
                            conceptual |-> "low", overall |-> "high"]

\* C26: for two identical non-empty wordmarks the visual and the aural
\* level are identical and the overall level is high or identical, whatever
\* the conceptual score.
C26_IdenticalMarks ==
    (spc = "done" /\ mark1 = mark2 /\ mark1 # <<>>) =>
        /\ similarity_output.visual = "identical"
        /\ similarity_output.aural = "identical"
        /\ similarity_output.overall \in {"high", "identical"}

C26_Witness ==
    /\ spc = "done"
    /\ mark1 = <<"a", "b">>
    /\ mark2 = <<"a", "b">>
    /\ conceptual_sim = Rat(0, 1)
    /\ similarity_output.conceptual = "dissimilar"
    /\ similarity_output.overall = "high"

BothNonEmpty == ~AllBlank(mark1) /\ ~AllBlank(mark2)

\* C27 as stated: the aural score of two non-empty marks is the maximum of
\* the primary-vs-primary ratio and, when both marks have an alternate
\* code, the ratios of the cross combinations; it is the primary-vs-primary
\* ratio when a mark has no alternate code.
C27_CrossOnlyWithBothAlternates ==
    (Scored /\ BothNonEmpty) =>
        LET p1 == metaphone[1][1]
            a1 == metaphone[1][2]
            p2 == metaphone[2][1]
            a2 == metaphone[2][2]
        IN IF a1 # <<>> /\ a2 # <<>>
           THEN aural_sim = RatMax({Ratio(p1, p2), Ratio(a1, a2),
                                    Ratio(p1, a2), Ratio(a1, p2)})
           ELSE aural_sim = Ratio(p1, p2)

\* C27 as the code has it: the aural score of two non-empty marks is the
\* greatest of the primary-vs-primary ratio and the ratios of those of
\* alternate-vs-alternate, primary-vs-alternate and alternate-vs-primary
\* whose two codes are both non-empty; one alternate code is enough for a
\* cross combination with the other mark's primary code.
C27_CrossWhereBothCodesExist ==
    (Scored /\ BothNonEmpty) =>
        LET p1 == metaphone[1][1]
            a1 == metaphone[1][2]
            p2 == metaphone[2][1]
            a2 == metaphone[2][2]
            S == {Ratio(p1, p2)} \cup
                 {Ratio(x[1], x[2]) :
                    x \in {y \in {<<a1, a2>>, <<p1, a2>>, <<a1, p2>>} :
                              y[1] # <<>> /\ y[2] # <<>>}}
        IN /\ aural_sim \in S
           /\ \A r \in S : ~RatLess(aural_sim, r)

C27_Witness ==
    /\ Scored
    /\ BothNonEmpty
    /\ metaphone = <<<<<<"K">>, <<>>>>, <<<<"K", "T">>, <<"K">>>>>>
    /\ aural_sim = Rat(1, 1)
    /\ Ratio(metaphone[1][1], metaphone[2][1]) = Rat(2, 3)

====
